---- MODULE Spec2Model ----
(***************************************************************************)
(* Model of photutils/profiles/core.py: ProfileBase and its two subclasses *)
(* CurveOfGrowth ("Growth") and RadialProfile ("Annular").                 *)
(*                                                                         *)
(* Numbers.  Python floats are modelled by exact extended rationals        *)
(* [n, d]: n/d in lowest terms with d > 0, and d = 0 for the non-finite    *)
(* values (1/0 = inf, -1/0 = -inf, 0/0 = nan).  Flux errors are square     *)
(* roots, kept exactly as sg * sqrt(sq) with sq an extended rational.      *)
(* Rounding error of binary floating point is therefore not modelled.      *)
(***************************************************************************)
EXTENDS Integers, Sequences, FiniteSets, TLC

\* ------------------------------------------------------------------ bounds
MaxRadius == 2
MaxStep == 2
MaxPix == 2

\* values a pixel of data / error may hold
DataVals == {-2, 1}
ErrVals == {1}

\* ------------------------------------------------- None and cached values
Unset == <<>>
Some(v) == <<v>>
IsSet(x) == x # <<>>
Val(x) == x[1]

\* --------------------------------------------------- extended rationals
Sign(x) == IF x > 0 THEN 1 ELSE IF x < 0 THEN -1 ELSE 0
Abs(x) == IF x < 0 THEN -x ELSE x

RECURSIVE GCD(_, _)
GCD(a, b) == IF b = 0 THEN a ELSE GCD(b, a % b)

\* n/d with d >= 0, in lowest terms; d = 0 gives inf, -inf or nan
QNorm(n, d) ==
    IF d = 0 THEN [n |-> Sign(n), d |-> 0]
    ELSE LET g == GCD(Abs(n), d) IN [n |-> n \div g, d |-> d \div g]

QInt(i) == [n |-> i, d |-> 1]
NaN == [n |-> 0, d |-> 0]
PInf == [n |-> 1, d |-> 0]
NInf == [n |-> -1, d |-> 0]
QZero == QInt(0)
QOne == QInt(1)

IsNaN(a) == a.d = 0 /\ a.n = 0
IsFinite(a) == a.d # 0

QAdd(a, b) ==
    IF a.d = 0 /\ b.d = 0
    THEN (IF a = b THEN a ELSE NaN)
    ELSE QNorm(a.n * b.d + b.n * a.d, a.d * b.d)
QNeg(a) == [n |-> -a.n, d |-> a.d]
QSub(a, b) == QAdd(a, QNeg(b))
QMul(a, b) == QNorm(a.n * b.n, a.d * b.d)
\* a / b with the IEEE results for a zero or non-finite operand
QDiv(a, b) ==
    LET s == IF b.n < 0 THEN -1 ELSE 1
    IN QNorm(a.n * b.d * s, a.d * b.n * s)

\* comparisons: every comparison with nan is false
QLt(a, b) ==
    /\ ~IsNaN(a)
    /\ ~IsNaN(b)
    /\ IF a.d = 0 /\ b.d = 0 THEN a.n < b.n ELSE a.n * b.d < b.n * a.d
QLe(a, b) == ~IsNaN(a) /\ ~IsNaN(b) /\ (a = b \/ QLt(a, b))
QEqZero(a) == a.d # 0 /\ a.n = 0

\* math.floor of a finite rational, as an integer
QFloor(a) == a.n \div a.d

\* ------------------------------------------------ square roots (errors)
\* the value sg * sqrt(sq); sq = nan is nan; zero and nan carry sg = 1
ENorm(sg, sq) ==
    IF IsNaN(sq) \/ QEqZero(sq) THEN [sg |-> 1, sq |-> sq]
    ELSE [sg |-> sg, sq |-> sq]
ENaN == [sg |-> 1, sq |-> NaN]
EZero == [sg |-> 1, sq |-> QZero]
\* np.sqrt(q): nan for a negative or nan argument
Root(q) == IF IsNaN(q) \/ QLt(q, QZero) THEN ENaN ELSE ENorm(1, q)
\* e ** 2
ESquare(e) == e.sq
\* e / c for a rational c
EDivQ(e, c) ==
    IF IsNaN(e.sq) \/ IsNaN(c) THEN ENaN
    ELSE ENorm(e.sg * (IF c.n < 0 THEN -1 ELSE 1), QDiv(e.sq, QMul(c, c)))

\* F applied to the value of e, with e evaluated once
Let(e, F(_)) == CHOOSE y \in {F(x) : x \in {e}} : TRUE

\* --------------------------------------------------------- numpy helpers
\* ndarray.sum(), over the first k elements
RECURSIVE SumTo(_, _)
SumTo(s, k) ==
    IF k = 0 THEN QZero
    ELSE Let(SumTo(s, k - 1), LAMBDA r : QAdd(r, s[k]))
SeqSum(s) == SumTo(s, Len(s))

\* ndarray.max(): nan if any element is nan
Max2(m, x) ==
    IF IsNaN(x) \/ IsNaN(m) THEN NaN ELSE IF QLt(m, x) THEN x ELSE m
RECURSIVE MaxTo(_, _)
MaxTo(s, k) ==
    IF k = 1 THEN s[1]
    ELSE Let(MaxTo(s, k - 1), LAMBDA m : Max2(m, s[k]))
SeqMax(s) == MaxTo(s, Len(s))

\* np.diff with prepend=0: as many elements as the input
DiffMut(s) ==
    [i \in 1..Len(s) |-> IF i = 1 THEN s[1] ELSE QSub(s[i], s[i - 1])]

\* np.diff; the difference of an empty array is empty
Diff(s) ==
    IF Len(s) = 0 THEN <<>>
    ELSE [i \in 1..(Len(s) - 1) |-> QSub(s[i + 1], s[i])]

\* np.linspace(start, stop, num), endpoint included
linspace(start, stop, num) ==
    IF num = 1 THEN <<start>>
    ELSE LET delta == QDiv(QSub(stop, start), QInt(num - 1))
         IN [i \in 1..num |->
                IF i = num THEN stop ELSE QAdd(start, QMul(QInt(i - 1), delta))]

\* ----------------------------------------------------------------- state
VARIABLES
    args,       \* the arguments of the constructor call, and the class
    pc,         \* "new", "ready" (constructed) or "raised" (ValueError)
    self,       \* the attributes __init__ stored: Unset before, Some(record)
    dict,       \* the lazyproperty cache of the instance (its __dict__)
    trace,      \* what ran: executions of _photometry, primitive calls
    last        \* how the last call ended, when it was normalize or raised

vars == <<args, pc, self, dict, trace, last>>

Kinds == {"Growth", "Annular"}

\* one-dimensional pixel strip: the shape of an array is its length
Shape(arr) == Len(arr)
Arrays(V) == UNION {[1..n -> V] : n \in 1..MaxPix}

\* the constructor calls the model explores
ArgSpace ==
    [kind : Kinds,
     data : [1..MaxPix -> DataVals],
     xycen : {0},
     min_radius : -1..(MaxRadius - 1),
     max_radius : -1..MaxRadius,
     radius_step : 0..MaxStep,
     error : {Unset} \cup {Some(e) : e \in Arrays(ErrVals)},
     mask : {Unset} \cup {Some(m) : m \in Arrays(BOOLEAN)}]

\* ------------------------------------------------- ProfileBase.__init__
\* the ValueError checks of __init__, in source order
InitRaisesMut(a) ==
    \/ a.min_radius < 0 \/ a.max_radius < 0
    \/ a.min_radius > a.max_radius
    \/ a.radius_step <= 0
    \/ (IsSet(a.error) /\ Shape(Val(a.error)) # Shape(a.data))
    \/ (IsSet(a.mask) /\ Shape(Val(a.mask)) # Shape(a.data))

InitRaises(a) ==
    \/ a.min_radius < 0 \/ a.max_radius < 0
    \/ a.min_radius >= a.max_radius
    \/ a.radius_step <= 0
    \/ (IsSet(a.error) /\ Shape(Val(a.error)) # Shape(a.data))
    \/ (IsSet(a.mask) /\ Shape(Val(a.mask)) # Shape(a.data))

\* the attributes __init__ assigns; data and error are plain arrays without
\* a unit, which process_quantities hands back as they are
InitAttrs(a) ==
    [kind |-> a.kind, data |-> a.data, xycen |-> a.xycen,
     min_radius |-> a.min_radius, max_radius |-> a.max_radius,
     radius_step |-> a.radius_step, error |-> a.error, mask |-> a.mask]

EmptyDict ==
    [radius |-> Unset, _circular_radii |-> Unset, _circular_apertures |-> Unset,
     _photometry |-> Unset, apertures |-> Unset, _flux |-> Unset,
     _fluxerr |-> Unset, area |-> Unset, profile |-> Unset,
     profile_error |-> Unset]

NoTrace == [photRuns |-> 0, measured |-> <<>>]

NoCall == [op |-> "none", method |-> "", outcome |-> "none"]

\* before the constructor runs
InitNew ==
    /\ args \in ArgSpace
    /\ pc = "new"
    /\ self = Unset
    /\ dict = EmptyDict
    /\ trace = NoTrace
    /\ last = NoCall

Construct ==
    /\ pc = "new"
    /\ IF InitRaises(args)
       THEN pc' = "raised" /\ self' = self
       ELSE pc' = "ready" /\ self' = Some(InitAttrs(args))
    /\ UNCHANGED <<args, dict, trace, last>>

\* an instance as the constructor returns it
Init ==
    /\ args \in ArgSpace
    /\ ~InitRaises(args)
    /\ pc = "ready"
    /\ self = Some(InitAttrs(args))
    /\ dict = EmptyDict
    /\ trace = NoTrace
    /\ last = NoCall

\* lazyproperty stores the computed value in the instance __dict__
Cache(s, name, v) == [s EXCEPT !.d[name] = Some(v)]

\* ---------------------------------------------------- ProfileBase.radius
radius_bodyMut(o) ==
    LET span == QSub(QInt(o.max_radius), QInt(o.min_radius))
        nsteps == QFloor(QDiv(span, QInt(o.radius_step))) + 1
        max_radius == QAdd(QInt(o.min_radius),
                           QMul(QInt(nsteps), QInt(o.radius_step)))
    IN linspace(QInt(o.min_radius), max_radius, nsteps + 1)

radius_body(o) ==
    LET span == QSub(QInt(o.max_radius), QInt(o.min_radius))
        nsteps == QFloor(QDiv(span, QInt(o.radius_step)))
        max_radius == QAdd(QInt(o.min_radius),
                           QMul(QInt(nsteps), QInt(o.radius_step)))
    IN linspace(QInt(o.min_radius), max_radius, nsteps + 1)

\* lazyproperty: compute on first access, then reuse the cached value
radius(o, s) ==
    IF IsSet(s.d.radius) THEN s ELSE Cache(s, "radius", radius_body(o))

\* ------------------------------------------------------------ apertures
\* aperture objects; NoAperture stands for Python's None
NoAperture == [shape |-> "None", r_in |-> QZero, r |-> QZero]
Circle(r) == [shape |-> "Circle", r_in |-> QZero, r |-> r]
Annulus(r_in, r_out) == [shape |-> "Annulus", r_in |-> r_in, r |-> r_out]
\* stands for an aperture whose constructor raised ValueError
Invalid == [shape |-> "ValueError", r_in |-> QZero, r |-> QZero]

\* photutils.aperture: a radius must be positive, and r_out > r_in
CircularAperture(xycen, r) ==
    IF QLt(QZero, r) THEN Circle(r) ELSE Invalid
CircularAnnulus(xycen, r_in, r_out) ==
    IF QLt(QZero, r_in) /\ QLt(r_in, r_out) THEN Annulus(r_in, r_out)
    ELSE Invalid

\* ------------------------------------- CurveOfGrowth._circular_radii
CurveOfGrowth_circular_radii_body(s) == Val(s.d.radius)

CurveOfGrowth_store_circular_radii(s) ==
    Cache(s, "_circular_radii", CurveOfGrowth_circular_radii_body(s))

CurveOfGrowth_circular_radii(o, s) ==
    IF IsSet(s.d._circular_radii) THEN s
    ELSE Let(radius(o, s), CurveOfGrowth_store_circular_radii)

\* ------------------------------------- RadialProfile._circular_radii
RadialProfile_circular_radii_bodyMut(o) ==
    LET shift == QDiv(QInt(o.radius_step), QInt(2))
        min_radius == QSub(QInt(o.min_radius), shift)
        max_radius == QInt(o.max_radius)
        nsteps == QFloor(QDiv(QSub(max_radius, min_radius),
                              QInt(o.radius_step)))
        stop == QAdd(min_radius, QMul(QInt(nsteps), QInt(o.radius_step)))
    IN linspace(min_radius, stop, nsteps + 1)

RadialProfile_circular_radii_body(o) ==
    LET shift == QDiv(QInt(o.radius_step), QInt(2))
        min_radius == QSub(QInt(o.min_radius), shift)
        max_radius == QAdd(QInt(o.max_radius), shift)
        nsteps == QFloor(QDiv(QSub(max_radius, min_radius),
                              QInt(o.radius_step)))
        stop == QAdd(min_radius, QMul(QInt(nsteps), QInt(o.radius_step)))
    IN linspace(min_radius, stop, nsteps + 1)

RadialProfile_circular_radii(o, s) ==
    IF IsSet(s.d._circular_radii) THEN s
    ELSE Cache(s, "_circular_radii", RadialProfile_circular_radii_body(o))

\* self._circular_radii, dispatched on the class
_circular_radii(o, s) ==
    IF o.kind = "Growth" THEN CurveOfGrowth_circular_radii(o, s)
    ELSE RadialProfile_circular_radii(o, s)

\* ---------------------------------- ProfileBase._circular_apertures
_circular_apertures_bodyMut(o, radii) ==
    [i \in 1..Len(radii) |->
        IF QLt(radii[i], QZero) THEN NoAperture
        ELSE CircularAperture(o.xycen, radii[i])]

_circular_apertures_body(o, radii) ==
    [i \in 1..Len(radii) |->
        IF QLe(radii[i], QZero) THEN NoAperture
        ELSE CircularAperture(o.xycen, radii[i])]

store_circular_apertures(o, s) ==
    Cache(s, "_circular_apertures",
          _circular_apertures_body(o, Val(s.d._circular_radii)))

_circular_apertures(o, s) ==
    IF IsSet(s.d._circular_apertures) THEN s
    ELSE Let(_circular_radii(o, s), LAMBDA x : store_circular_apertures(o, x))


\* ------------------------------------------- the photometry primitive
\* Pixel k of the strip has its centre at coordinate k - 1.  A pixel counts
\* for a circular aperture when its centre lies inside the circle and the
\* pixel is not masked.
Included(o, aper, k) ==
    /\ QLt(QInt(Abs((k - 1) - o.xycen)), aper.r)
    /\ (~IsSet(o.mask) \/ ~Val(o.mask)[k])

RECURSIVE IncSum(_, _, _, _)
IncSum(o, aper, w, k) ==
    IF k = 0 THEN 0
    ELSE IncSum(o, aper, w, k - 1) + (IF Included(o, aper, k) THEN w[k] ELSE 0)

\* aperture.do_photometry(data, error, mask): (flux, fluxerr)
do_photometry(o, aper) ==
    [flux |-> QInt(IncSum(o, aper, o.data, Len(o.data))),
     fluxerr |->
        IF IsSet(o.error)
        THEN Some(Root(QInt(IncSum(o, aper,
                 [k \in 1..Len(o.data) |-> Val(o.error)[k] * Val(o.error)[k]],
                 Len(o.data)))))
        ELSE Unset]

\* aperture.area_overlap(data, mask)
area_overlap(o, aper) ==
    QInt(IncSum(o, aper, [k \in 1..Len(o.data) |-> 1], Len(o.data)))

\* ------------------------------------------- ProfileBase._photometry
\* a None aperture given nan for its flux
MeasureMut(o, aper) ==
    IF aper = NoAperture
    THEN [flux |-> NaN, fluxerr |-> Some(EZero), area |-> QZero]
    ELSE [flux |-> do_photometry(o, aper).flux,
          fluxerr |-> do_photometry(o, aper).fluxerr,
          area |-> area_overlap(o, aper)]

\* one pass of the loop body: (flux, fluxerr, area) of one aperture
Measure(o, aper) ==
    IF aper = NoAperture
    THEN [flux |-> QZero, fluxerr |-> Some(EZero), area |-> QZero]
    ELSE [flux |-> do_photometry(o, aper).flux,
          fluxerr |-> do_photometry(o, aper).fluxerr,
          area |-> area_overlap(o, aper)]

\* (fluxes, fluxerrs, areas), one entry per aperture; fluxerrs stays empty
\* when no error array was given
Collect(o, m) ==
    [fluxes |-> [i \in 1..Len(m) |-> m[i].flux],
     fluxerrs |-> IF IsSet(o.error)
                  THEN [i \in 1..Len(m) |-> Val(m[i].fluxerr)]
                  ELSE <<>>,
     areas |-> [i \in 1..Len(m) |-> m[i].area]]

_photometry_body(o, apertures) ==
    Collect(o, [i \in 1..Len(apertures) |-> Measure(o, apertures[i])])

\* the apertures the primitive is called with, in call order
PrimitiveCalls(apertures) ==
    SelectSeq(apertures, LAMBDA a : a # NoAperture)

\* one more execution of the loop of _photometry
RunPhotometry(o, s) ==
    [s EXCEPT !.d._photometry =
                  Some(_photometry_body(o, Val(s.d._circular_apertures))),
              !.t.photRuns = @ + 1,
              !.t.measured = @ \o PrimitiveCalls(Val(s.d._circular_apertures))]

_photometryMut(o, s) ==
    Let(_circular_apertures(o, s), LAMBDA x : RunPhotometry(o, x))

_photometry(o, s) ==
    IF IsSet(s.d._photometry) THEN s
    ELSE Let(_circular_apertures(o, s), LAMBDA x : RunPhotometry(o, x))

\* -------------------------------------------------------- CurveOfGrowth
CurveOfGrowth_store_apertures(s) ==
    Cache(s, "apertures", Val(s.d._circular_apertures))
CurveOfGrowth_apertures(o, s) ==
    IF IsSet(s.d.apertures) THEN s
    ELSE Let(_circular_apertures(o, s), CurveOfGrowth_store_apertures)

CurveOfGrowth_store_profile(s) ==
    Cache(s, "profile", Val(s.d._photometry).fluxes)
CurveOfGrowth_profile(o, s) ==
    IF IsSet(s.d.profile) THEN s
    ELSE Let(_photometry(o, s), CurveOfGrowth_store_profile)

CurveOfGrowth_store_profile_error(s) ==
    Cache(s, "profile_error", Val(s.d._photometry).fluxerrs)
CurveOfGrowth_profile_error(o, s) ==
    IF IsSet(s.d.profile_error) THEN s
    ELSE Let(_photometry(o, s), CurveOfGrowth_store_profile_error)

CurveOfGrowth_store_area(s) ==
    Cache(s, "area", Val(s.d._photometry).areas)
CurveOfGrowth_area(o, s) ==
    IF IsSet(s.d.area) THEN s
    ELSE Let(_photometry(o, s), CurveOfGrowth_store_area)

\* -------------------------------------------------------- RadialProfile
\* one aperture per consecutive pair of bin edges: an annulus, or a circle
\* of the outer radius when the annulus constructor raises
TryAnnulus(annulus, xycen, r_out) ==
    IF annulus # Invalid THEN annulus ELSE CircularAperture(xycen, r_out)

RadialProfile_apertures_bodyMut(o, radii) ==
    [i \in 1..(Len(radii) - 1) |->
        CircularAnnulus(o.xycen, radii[i], radii[i + 1])]

RadialProfile_apertures_body(o, radii) ==
    [i \in 1..(Len(radii) - 1) |->
        TryAnnulus(CircularAnnulus(o.xycen, radii[i], radii[i + 1]),
                   o.xycen, radii[i + 1])]

\* whether building the list raised (an uncaught ValueError)
Raised(built) == \E i \in 1..Len(built) : built[i] = Invalid

RadialProfile_store_apertures(s, built) ==
    IF Raised(built) THEN s ELSE Cache(s, "apertures", built)
RadialProfile_build_apertures(o, s) ==
    RadialProfile_store_apertures(s,
        RadialProfile_apertures_body(o, Val(s.d._circular_radii)))
RadialProfile_apertures(o, s) ==
    IF IsSet(s.d.apertures) THEN s
    ELSE Let(_circular_radii(o, s),
             LAMBDA x : RadialProfile_build_apertures(o, x))

\* np.diff(self._photometry[0])
_flux_bodyMut(s) == Tail(Val(s.d._photometry).fluxes)
_flux_body(s) == Diff(Val(s.d._photometry).fluxes)
store_flux(s) == Cache(s, "_flux", _flux_body(s))
_flux(o, s) ==
    IF IsSet(s.d._flux) THEN s ELSE Let(_photometry(o, s), store_flux)

\* np.sqrt(np.diff(self._photometry[1] ** 2))
Squares(e) == [i \in 1..Len(e) |-> ESquare(e[i])]
Roots(q) == [i \in 1..Len(q) |-> Root(q[i])]
_fluxerr_body(s) == Roots(Diff(Squares(Val(s.d._photometry).fluxerrs)))
store_fluxerr(s) == Cache(s, "_fluxerr", _fluxerr_body(s))
_fluxerr(o, s) ==
    IF IsSet(s.d._fluxerr) THEN s ELSE Let(_photometry(o, s), store_fluxerr)

\* np.diff(self._photometry[2])
RadialProfile_area_body(s) == Diff(Val(s.d._photometry).areas)
RadialProfile_store_area(s) == Cache(s, "area", RadialProfile_area_body(s))
RadialProfile_area(o, s) ==
    IF IsSet(s.d.area) THEN s
    ELSE Let(_photometry(o, s), RadialProfile_store_area)

\* self._flux / self.area, the divide-by-zero warning ignored
\* a guarded division that puts 0 where the area is 0
RadialProfile_profile_bodyMut(f, a) ==
    [i \in 1..Len(f) |-> IF QEqZero(a[i]) THEN QZero ELSE QDiv(f[i], a[i])]

RadialProfile_profile_body(f, a) == [i \in 1..Len(f) |-> QDiv(f[i], a[i])]
RadialProfile_store_profile(s) ==
    Cache(s, "profile",
          RadialProfile_profile_body(Val(s.d._flux), Val(s.d.area)))
RadialProfile_profile(o, s) ==
    IF IsSet(s.d.profile) THEN s
    ELSE Let(Let(_flux(o, s), LAMBDA x : RadialProfile_area(o, x)),
             RadialProfile_store_profile)

\* self._fluxerr, or self._fluxerr / self.area when an error array was given
RadialProfile_store_profile_error_raw(s) ==
    Cache(s, "profile_error", Val(s.d._fluxerr))
\* the division by the area forgotten
RadialProfile_profile_error_bodyMut(e, a) == e

RadialProfile_profile_error_body(e, a) ==
    [i \in 1..Len(e) |-> EDivQ(e[i], a[i])]
RadialProfile_store_profile_error(s) ==
    Cache(s, "profile_error",
          RadialProfile_profile_error_body(Val(s.d._fluxerr), Val(s.d.area)))
RadialProfile_profile_error(o, s) ==
    IF IsSet(s.d.profile_error) THEN s
    ELSE IF ~IsSet(o.error)
         THEN Let(_fluxerr(o, s), RadialProfile_store_profile_error_raw)
         ELSE Let(Let(_fluxerr(o, s), LAMBDA x : RadialProfile_area(o, x)),
                  RadialProfile_store_profile_error)

\* ------------------------------------- attribute access on the instance
apertures(o, s) ==
    IF o.kind = "Growth" THEN CurveOfGrowth_apertures(o, s)
    ELSE RadialProfile_apertures(o, s)
profile(o, s) ==
    IF o.kind = "Growth" THEN CurveOfGrowth_profile(o, s)
    ELSE RadialProfile_profile(o, s)
profile_error(o, s) ==
    IF o.kind = "Growth" THEN CurveOfGrowth_profile_error(o, s)
    ELSE RadialProfile_profile_error(o, s)
area(o, s) ==
    IF o.kind = "Growth" THEN CurveOfGrowth_area(o, s)
    ELSE RadialProfile_area(o, s)


\* ------------------------------------------------ ProfileBase.normalize
Methods == {"max", "sum", "peak"}

\* the normalization constant of a recognised method
normalization(method, p) ==
    IF method = "max" THEN SeqMax(p) ELSE SeqSum(p)

\* self.__dict__['profile'] = self.profile / normalization
ScaleProfileMut(s, c) == s
ScaleProfile(s, c) ==
    Cache(s, "profile",
          [i \in 1..Len(Val(s.d.profile)) |-> QDiv(Val(s.d.profile)[i], c)])

\* self.__dict__['profile_error'] = self.profile_error / normalization
\* profile_error left as it was
ScaleErrorMut(s, c) == s
ScaleError(s, c) ==
    Cache(s, "profile_error",
          [i \in 1..Len(Val(s.d.profile_error)) |->
              EDivQ(Val(s.d.profile_error)[i], c)])

\* how a call ended, and the state it left
Ended(s, outcome) == [s |-> s, outcome |-> outcome]

\* an in-place division: for Growth the profile is the flux array of the
\* aggregates, which is then scaled as well
RescaleMut(o, s1, c) ==
    Let(Let(Let(ScaleProfile(s1, c), LAMBDA x : profile_error(o, x)),
            LAMBDA s3 : ScaleError(s3, c)),
        LAMBDA s4 : IF o.kind = "Growth"
                    THEN [s4 EXCEPT !.d._photometry =
                             Some([Val(s4.d._photometry) EXCEPT
                                      !.fluxes = Val(s4.d.profile)])]
                    ELSE s4)

\* the else branch: profile is overwritten, then self.profile_error is
\* read and overwritten
Rescale(o, s1, c) ==
    Let(Let(ScaleProfile(s1, c), LAMBDA x : profile_error(o, x)),
        LAMBDA s3 : ScaleError(s3, c))

\* the zero test on the constant c; s1 is the state after self.profile
\* was read
normalize_by(o, s1, c) ==
    IF QEqZero(c) THEN Ended(s1, "warned")
    ELSE Ended(Rescale(o, s1, c), "ok")

normalize_read(o, s1, method) ==
    Let(normalization(method, Val(s1.d.profile)),
        LAMBDA c : normalize_by(o, s1, c))

\* self.profile read before the method is validated
normalizeMut(o, s, method) ==
    IF method \notin {"max", "sum"}
    THEN Ended(profile(o, s), "ValueError")
    ELSE Let(profile(o, s), LAMBDA s1 : normalize_read(o, s1, method))

normalize(o, s, method) ==
    IF method \notin {"max", "sum"}
    THEN Ended(s, "ValueError")
    ELSE Let(profile(o, s), LAMBDA s1 : normalize_read(o, s1, method))

\* -------------------------------------------------------------- actions
Here == [d |-> dict, t |-> trace]

Became(s) == \E r \in {s} : dict' = r.d /\ trace' = r.t

AccessRadius ==
    /\ pc = "ready"
    /\ \E s \in {Here} : Became(radius(Val(self), s))
    /\ last' = NoCall
    /\ UNCHANGED <<args, pc, self>>

AperturesRaised ==
    [op |-> "apertures", method |-> "", outcome |-> "ValueError"]

AccessApertures ==
    /\ pc = "ready"
    /\ \E s \in {Here} : Became(apertures(Val(self), s))
    /\ last' = IF IsSet(dict'.apertures) THEN NoCall ELSE AperturesRaised
    /\ UNCHANGED <<args, pc, self>>

AccessProfile ==
    /\ pc = "ready"
    /\ \E s \in {Here} : Became(profile(Val(self), s))
    /\ last' = NoCall
    /\ UNCHANGED <<args, pc, self>>

AccessProfileError ==
    /\ pc = "ready"
    /\ \E s \in {Here} : Became(profile_error(Val(self), s))
    /\ last' = NoCall
    /\ UNCHANGED <<args, pc, self>>

AccessArea ==
    /\ pc = "ready"
    /\ \E s \in {Here} : Became(area(Val(self), s))
    /\ last' = NoCall
    /\ UNCHANGED <<args, pc, self>>

Returned(r, method) ==
    /\ Became(r.s)
    /\ last' = [op |-> "normalize", method |-> method, outcome |-> r.outcome]

Normalize(method) ==
    /\ pc = "ready"
    /\ \E r \in {Let(Here, LAMBDA s : normalize(Val(self), s, method))} :
           Returned(r, method)
    /\ UNCHANGED <<args, pc, self>>

Next ==
    \/ AccessRadius
    \/ AccessApertures
    \/ AccessProfile
    \/ AccessProfileError
    \/ AccessArea
    \/ \E method \in Methods : Normalize(method)

Spec == Init /\ [][Next]_vars

\* the constructor alone, over valid and invalid arguments
NextNew == Construct

SpecNew == InitNew /\ [][NextNew]_vars

\* ============================================================ properties
Obj == Val(self)

\* absolute value
QAbs(a) == [n |-> Abs(a.n), d |-> a.d]

\* ndarray element-wise absolute value, then max
MaxAbs(p) == SeqMax([i \in 1..Len(p) |-> QAbs(p[i])])

\* C1: the radius grid has floor((max_radius - min_radius) / radius_step) + 1
\* elements, starts at min_radius, is strictly increasing with every
\* consecutive difference equal to radius_step, and ends at or below
\* max_radius.
C1_RadiusGrid ==
    IsSet(dict.radius) =>
        LET r == Val(dict.radius)
        IN /\ Len(r) = (Obj.max_radius - Obj.min_radius) \div Obj.radius_step + 1
           /\ r[1] = QInt(Obj.min_radius)
           /\ \A i \in 1..(Len(r) - 1) :
                  /\ QLt(r[i], r[i + 1])
                  /\ QSub(r[i + 1], r[i]) = QInt(Obj.radius_step)
           /\ QLe(r[Len(r)], QInt(Obj.max_radius))

\* a grid of several points with a spacing other than 1
C1_Witness ==
    /\ IsSet(dict.radius)
    /\ Len(Val(dict.radius)) >= 2
    /\ Obj.radius_step >= 2

\* the conditions the constructor is said to reject
C2_Rejected(a) ==
    \/ a.min_radius < 0
    \/ a.max_radius < 0
    \/ a.min_radius >= a.max_radius
    \/ a.radius_step <= 0
    \/ (a.error # Unset /\ Len(Val(a.error)) # Len(a.data))
    \/ (a.mask # Unset /\ Len(Val(a.mask)) # Len(a.data))

\* C2: construction raises ValueError exactly under the listed conditions;
\* otherwise it succeeds and every parameter is stored as it was passed.
C2_Constructor ==
    /\ pc = "raised" => C2_Rejected(args) /\ self = Unset
    /\ pc = "ready" =>
           /\ ~C2_Rejected(args)
           /\ IsSet(self)
           /\ Obj.data = args.data
           /\ Obj.xycen = args.xycen
           /\ Obj.min_radius = args.min_radius
           /\ Obj.max_radius = args.max_radius
           /\ Obj.radius_step = args.radius_step
           /\ Obj.error = args.error
           /\ Obj.mask = args.mask

\* a call rejected for the shape of its mask alone
C2_Witness ==
    /\ pc = "raised"
    /\ args.min_radius >= 0
    /\ args.min_radius < args.max_radius
    /\ args.radius_step > 0
    /\ (args.error = Unset \/ Len(Val(args.error)) = Len(args.data))
    /\ args.mask # Unset
    /\ Len(Val(args.mask)) # Len(args.data)

\* C3: for the Annular variant the bin edges are one more than the radii,
\* and radius[i] is the midpoint of edge interval i.
C3_Midpoints ==
    (Obj.kind = "Annular" /\ IsSet(dict.radius) /\ IsSet(dict._circular_radii))
    => LET r == Val(dict.radius)
           b == Val(dict._circular_radii)
           half == QDiv(QInt(Obj.radius_step), QInt(2))
       IN /\ Len(b) = Len(r) + 1
          /\ \A i \in 1..Len(r) :
                 /\ b[i] = QSub(r[i], half)
                 /\ b[i + 1] = QAdd(r[i], half)

C3_Witness ==
    /\ Obj.kind = "Annular"
    /\ IsSet(dict.radius)
    /\ IsSet(dict._circular_radii)
    /\ Len(Val(dict.radius)) >= 2
    /\ QLt(Val(dict._circular_radii)[1], QZero)

\* C4 as stated: the profile has len(radius) elements for Growth and
\* len(radius) - 1 elements for Annular.
C4_Original ==
    (IsSet(dict.radius) /\ IsSet(dict.profile)) =>
        Len(Val(dict.profile)) =
            IF Obj.kind = "Growth" THEN Len(Val(dict.radius))
            ELSE Len(Val(dict.radius)) - 1

\* C4 as amended: the profile has exactly len(radius) elements for both
\* variants (for Annular, one per bin, which is len(edges) - 1).
C4_ProfileLength ==
    (IsSet(dict.radius) /\ IsSet(dict.profile)) =>
        /\ Len(Val(dict.profile)) = Len(Val(dict.radius))
        /\ Obj.kind = "Annular" =>
               Len(Val(dict.profile)) = Len(Val(dict._circular_radii)) - 1

C4_Witness ==
    /\ Obj.kind = "Annular"
    /\ IsSet(dict.radius)
    /\ IsSet(dict.profile)
    /\ Len(Val(dict.profile)) >= 2

\* C5: for the Annular variant building the apertures never raises; there
\* is one region per consecutive pair of edges; region 0 is a circle of
\* radius min_radius + radius_step / 2 exactly when
\* min_radius <= radius_step / 2, and every other region is an annulus
\* with 0 < lo < hi.
C5_Apertures ==
    Obj.kind = "Annular" =>
        /\ last # AperturesRaised
        /\ IsSet(dict.apertures) =>
               LET ap == Val(dict.apertures)
                   b == Val(dict._circular_radii)
                   half == QDiv(QInt(Obj.radius_step), QInt(2))
               IN /\ Len(ap) = Len(b) - 1
                  /\ (ap[1].shape = "Circle") <=>
                         (2 * Obj.min_radius <= Obj.radius_step)
                  /\ ap[1].shape = "Circle" =>
                         ap[1].r = QAdd(QInt(Obj.min_radius), half)
                  /\ \A i \in 1..Len(ap) :
                         ap[i].shape # "Circle" =>
                             /\ ap[i] = Annulus(b[i], b[i + 1])
                             /\ QLt(QZero, b[i])
                             /\ QLt(b[i], b[i + 1])
                  /\ \A i \in 2..Len(ap) : ap[i].shape = "Annulus"

\* the inner edge of region 0 is exactly zero
C5_Witness ==
    /\ Obj.kind = "Annular"
    /\ IsSet(dict.apertures)
    /\ 2 * Obj.min_radius = Obj.radius_step
    /\ Val(dict.apertures)[1].shape = "Circle"

\* number of regions that are not None
Measurable(ap) == Len(PrimitiveCalls(ap))

\* C6: for the Growth variant region i is None exactly when radius[i] <= 0
\* (only index 0 with min_radius = 0) and otherwise a circle of radius
\* radius[i]; a None region adds flux 0 and area 0 with no primitive call,
\* so the sequences have one entry per region and profile[0] = area[0] = 0.
C6_NoneRegion ==
    Obj.kind = "Growth" =>
        /\ IsSet(dict._circular_apertures) =>
               LET ap == Val(dict._circular_apertures)
                   r == Val(dict.radius)
               IN /\ Len(ap) = Len(r)
                  /\ \A i \in 1..Len(ap) :
                         /\ (ap[i] = NoAperture) <=> QLe(r[i], QZero)
                         /\ ap[i] = NoAperture =>
                                i = 1 /\ Obj.min_radius = 0
                         /\ ap[i] # NoAperture => ap[i] = Circle(r[i])
        /\ IsSet(dict._photometry) =>
               LET ap == Val(dict._circular_apertures)
                   ph == Val(dict._photometry)
               IN /\ Len(ph.fluxes) = Len(ap)
                  /\ Len(ph.areas) = Len(ap)
                  /\ \A k \in 1..Len(trace.measured) :
                         trace.measured[k] # NoAperture
                  /\ Len(trace.measured) = Measurable(ap)
                  /\ Obj.min_radius = 0 =>
                         /\ ph.fluxes[1] = QZero
                         /\ ph.areas[1] = QZero
                         /\ Len(trace.measured) = Len(ap) - 1
        /\ (IsSet(dict.profile) /\ Obj.min_radius = 0) =>
               Val(dict.profile)[1] = QZero
        /\ (IsSet(dict.area) /\ Obj.min_radius = 0) =>
               Val(dict.area)[1] = QZero

C6_Witness ==
    /\ Obj.kind = "Growth"
    /\ Obj.min_radius = 0
    /\ IsSet(dict.profile)
    /\ IsSet(dict.area)
    /\ Val(dict._circular_apertures)[1] = NoAperture
    /\ Len(trace.measured) >= 1

\* a step that is a call normalize(method)
NormalizeStep(method) == last'.op = "normalize" /\ last'.method = method

\* what a call of normalize starts from: the state once self.profile has
\* been read, the profile and the profile_error of before the call
BeforeNormalize ==
    {[s1 |-> s1,
      profile |-> Val(s1.d.profile),
      profile_error |-> Val(profile_error(Obj, s1).d.profile_error)] :
         s1 \in {profile(Obj, Here)}}

\* the call warned and left profile and profile_error as they were
WarnedUnchanged(pre) ==
    /\ last'.outcome = "warned"
    /\ dict'.profile = Some(pre.profile)
    /\ dict'.profile_error = dict.profile_error

\* profile and profile_error are those of before the call divided by c
DividedBy(pre, c) ==
    /\ Val(dict'.profile) =
           [i \in 1..Len(pre.profile) |-> QDiv(pre.profile[i], c)]
    /\ Val(dict'.profile_error) =
           [i \in 1..Len(pre.profile_error) |->
               EDivQ(pre.profile_error[i], c)]

C8_Original ==
    [][NormalizeStep("sum") =>
          \A pre \in BeforeNormalize :
              \A c \in {SeqSum(pre.profile)} :
                  IF QEqZero(c)
                  THEN WarnedUnchanged(pre)
                  ELSE /\ SeqSum(Val(dict'.profile)) = QOne
                       /\ DividedBy(pre, c)]_vars

\* cumulative circular-aperture flux at radius r: the Growth profile value
\* of a grid point r over the same data and mask
GrowthAt(ob, r) ==
    _photometry_body(ob, _circular_apertures_body(ob, <<r>>)).fluxes[1]

\* sum over j <= i of profile[j] * area[j]
WeightedSum(p, a, i) == SumTo([j \in 1..Len(p) |-> QMul(p[j], a[j])], i)

\* a step in which an accessor computes the profile for the first time
FirstProfile ==
    ~IsSet(dict.profile) /\ IsSet(dict'.profile) /\ last' = NoCall

\* the un-normalized profile, the areas and the bin edges after that step
Computed ==
    {[profile |-> Val(dict'.profile), area |-> Val(dict'.area),
      edges |-> Val(dict'._circular_radii)]}

\* C9 as stated: for the Annular variant the cumulative sum of
\* profile[j] * area[j] up to bin i equals the Growth profile at the outer
\* edge of bin i.
C9_Original ==
    [][(FirstProfile /\ Obj.kind = "Annular") =>
          \A x \in Computed :
              \A i \in 1..Len(x.profile) :
                  WeightedSum(x.profile, x.area, i) =
                      GrowthAt(Obj, x.edges[i + 1])]_vars

\* C9 as amended: for every bin i such that bins 0..i all have nonzero
\* area, the cumulative sum of profile[j] * area[j] up to bin i equals the
\* Growth flux at the outer edge of bin i minus the Growth flux at the
\* innermost edge (which is 0 when that edge is <= 0, that is when
\* min_radius <= radius_step / 2).
C9_Cumulative ==
    [][(FirstProfile /\ Obj.kind = "Annular") =>
          \A x \in Computed :
              \A inner \in {GrowthAt(Obj, x.edges[1])} :
                  /\ QLe(x.edges[1], QZero) => inner = QZero
                  /\ \A i \in 1..Len(x.profile) :
                         (\A j \in 1..i : ~QEqZero(x.area[j])) =>
                             WeightedSum(x.profile, x.area, i) =
                                 QSub(GrowthAt(Obj, x.edges[i + 1]), inner)]_vars

\* an Annular profile whose first bin has nonzero area, with flux inside
\* the innermost edge
C9_Witness ==
    /\ Obj.kind = "Annular"
    /\ last = NoCall
    /\ IsSet(dict.profile)
    /\ Len(Val(dict.profile)) >= 2
    /\ ~QEqZero(Val(dict.area)[1])
    /\ ~QEqZero(GrowthAt(Obj, Val(dict._circular_radii)[1]))

\* C10: whatever is accessed or normalized, the loop of _photometry runs at
\* most once, and the primitive is called at most once per region that is
\* not None.
C10_PhotometryOnce ==
    /\ trace.photRuns <= 1
    /\ (trace.photRuns = 0) <=> ~IsSet(dict._photometry)
    /\ trace.photRuns = 0 => trace.measured = <<>>
    /\ \A j, k \in 1..Len(trace.measured) :
           trace.measured[j] = trace.measured[k] => j = k
    /\ IsSet(dict._photometry) =>
           Len(trace.measured) = Measurable(Val(dict._circular_apertures))

\* several consumers of the aggregates have run
C10_Witness ==
    /\ trace.photRuns = 1
    /\ Len(trace.measured) >= 2
    /\ IsSet(dict.profile_error)
    /\ IsSet(dict.area)
    /\ last = [op |-> "normalize", method |-> "sum", outcome |-> "ok"]

\* a step in which an accessor computes profile_error for the first time
FirstProfileError ==
    ~IsSet(dict.profile_error) /\ IsSet(dict'.profile_error) /\ last' = NoCall

\* the number of regions the profile has one value for
Regions ==
    IF Obj.kind = "Growth" THEN Len(Val(dict'._circular_radii))
    ELSE Len(Val(dict'._circular_radii)) - 1

\* the aggregated flux errors as the accessor first returns them
ErrorComputed ==
    {[profile_error |-> Val(dict'.profile_error),
      fluxerrs |-> Val(dict'._photometry).fluxerrs,
      apertures |-> Val(dict'._circular_apertures)]}

\* Growth: the flux error of each region, 0 for a None region
GrowthErrors(x) ==
    \A i \in 1..Len(x.profile_error) :
        x.profile_error[i] =
            IF x.apertures[i] = NoAperture THEN EZero
            ELSE Val(do_photometry(Obj, x.apertures[i]).fluxerr)

\* Annular: fluxerr_i / area_i with
\* fluxerr_i ^ 2 = cumfluxerr_{i+1} ^ 2 - cumfluxerr_i ^ 2
AnnularErrors(x) ==
    \A i \in 1..Len(x.profile_error) :
        /\ ESquare(Val(dict'._fluxerr)[i]) =
               QSub(ESquare(x.fluxerrs[i + 1]), ESquare(x.fluxerrs[i]))
        /\ x.profile_error[i] =
               EDivQ(Val(dict'._fluxerr)[i], Val(dict'.area)[i])

\* C11: without an error array profile_error is empty for both variants and
\* the profile keeps its full length; with an error array profile_error is
\* as long as the profile and holds the aggregated flux errors (Growth) or
\* fluxerr_i / area_i with fluxerr_i ^ 2 the difference of the squared
\* cumulative flux errors (Annular).
C11_ProfileError ==
    [][/\ IsSet(dict'.profile) => Len(Val(dict'.profile)) = Regions
       /\ IsSet(dict'.profile_error) =>
              Len(Val(dict'.profile_error)) =
                  IF IsSet(Obj.error) THEN Regions ELSE 0
       /\ (FirstProfileError /\ IsSet(Obj.error)) =>
              \A x \in ErrorComputed :
                  IF Obj.kind = "Growth" THEN GrowthErrors(x)
                  ELSE AnnularErrors(x)]_vars

\* an Annular profile_error over a bin of two pixels
C11_Witness ==
    /\ Obj.kind = "Annular"
    /\ IsSet(Obj.error)
    /\ last = NoCall
    /\ IsSet(dict.profile_error)
    /\ IsSet(dict.profile)
    /\ \E i \in 1..Len(Val(dict.area)) :
           /\ Val(dict.area)[i] = QInt(2)
           /\ Val(dict.profile_error)[i] = EDivQ(Root(QInt(2)), QInt(2))

\* whether an error value is finite
EIsFinite(e) == IsFinite(e.sq)

\* the Annular values an accessor has just computed, with the bin fluxes,
\* bin flux errors and bin areas they come from
BinsComputed ==
    {[profile |-> Val(dict'.profile), flux |-> Val(dict'._flux),
      area |-> Val(dict'.area)]}
BinErrorsComputed ==
    {[profile_error |-> Val(dict'.profile_error),
      fluxerr |-> Val(dict'._fluxerr), area |-> Val(dict'.area)]}

\* C12: computing the Annular profile and profile_error never raises and
\* gives a value for every bin: a non-finite one (inf or nan) for a bin of
\* zero area, and flux_i / area_i (fluxerr_i / area_i) for every other bin.
C12_ZeroArea ==
    [][(Obj.kind = "Annular" /\ last' = NoCall) =>
          /\ FirstProfile =>
                 \A x \in BinsComputed :
                     /\ Len(x.profile) = Len(x.area)
                     /\ \A i \in 1..Len(x.area) :
                            IF QEqZero(x.area[i])
                            THEN ~IsFinite(x.profile[i])
                            ELSE /\ x.profile[i] = QDiv(x.flux[i], x.area[i])
                                 /\ IsFinite(x.profile[i])
          /\ (FirstProfileError /\ IsSet(Obj.error)) =>
                 \A x \in BinErrorsComputed :
                     /\ Len(x.profile_error) = Len(x.area)
                     /\ \A i \in 1..Len(x.area) :
                            IF QEqZero(x.area[i])
                            THEN ~EIsFinite(x.profile_error[i])
                            ELSE /\ x.profile_error[i] =
                                        EDivQ(x.fluxerr[i], x.area[i])
                                 /\ EIsFinite(x.profile_error[i])]_vars

\* a profile with a bin of zero area next to a bin of nonzero area
C12_Witness ==
    /\ Obj.kind = "Annular"
    /\ IsSet(Obj.error)
    /\ last = NoCall
    /\ IsSet(dict.profile)
    /\ IsSet(dict.profile_error)
    /\ \E i, j \in 1..Len(Val(dict.area)) :
           /\ QEqZero(Val(dict.area)[i])
           /\ IsNaN(Val(dict.profile)[i])
           /\ ~EIsFinite(Val(dict.profile_error)[i])
           /\ ~QEqZero(Val(dict.area)[j])
           /\ IsFinite(Val(dict.profile)[j])

\* data without a negative pixel, and no masked pixel
NonNegativeUnmasked ==
    /\ \A k \in 1..Len(Obj.data) : Obj.data[k] >= 0
    /\ IsSet(Obj.mask) => \A k \in 1..Len(Obj.data) : ~Val(Obj.mask)[k]

\* C13: for non-negative data with no masked pixel the Growth profile never
\* decreases with radius, the step from a None region at radius 0 to the
\* first circle included.
C13_Monotone ==
    (Obj.kind = "Growth" /\ NonNegativeUnmasked /\ IsSet(dict.profile)) =>
        \A i \in 1..(Len(Val(dict.profile)) - 1) :
            QLe(Val(dict.profile)[i], Val(dict.profile)[i + 1])

\* a profile that starts with a None region and grows from there
C13_Witness ==
    /\ Obj.kind = "Growth"
    /\ NonNegativeUnmasked
    /\ IsSet(dict.profile)
    /\ Len(Val(dict.profile)) >= 3
    /\ Val(dict._circular_apertures)[1] = NoAperture
    /\ Val(dict.profile)[1] = QZero
    /\ QLt(Val(dict.profile)[2], Val(dict.profile)[3])

ReadAll(s) ==
    Let(Let(Let(Let(radius(Obj, s),
                    LAMBDA x : apertures(Obj, x)),
                LAMBDA x : area(Obj, x)),
            LAMBDA x : profile(Obj, x)),
        LAMBDA x : profile_error(Obj, x))

\* the cached values other than profile and profile_error
Kept ==
    {"radius", "_circular_radii", "_circular_apertures", "_photometry",
     "apertures", "_flux", "_fluxerr", "area"}

\* C15: normalize changes only profile and profile_error: radius, area,
\* apertures and the cached aggregates keep their values (one that
\* normalize computes for the first time is the value that reading the
\* attribute before the call returns), and a later access to profile or
\* profile_error returns the stored values instead of recomputing them.
C15_Frame ==
    [][/\ (last'.op = "normalize" /\ \E k \in Kept : dict'[k] # dict[k]) =>
              \A before \in {ReadAll(Here)} :
                  \A k \in Kept :
                      dict'[k] # dict[k] =>
                          ~IsSet(dict[k]) /\ dict'[k] = before.d[k]
       /\ last' = NoCall =>
              /\ IsSet(dict.profile) => dict'.profile = dict.profile
              /\ IsSet(dict.profile_error) =>
                     dict'.profile_error = dict.profile_error]_vars

\* a normalized Growth profile, after a later accessor
C15_Witness ==
    /\ Obj.kind = "Growth"
    /\ last = NoCall
    /\ IsSet(dict.radius)
    /\ IsSet(dict.apertures)
    /\ IsSet(dict.area)
    /\ IsSet(dict.profile)
    /\ IsSet(dict.profile_error)
    /\ Val(dict.profile) # Val(dict._photometry).fluxes

\* the un-normalized profile and profile_error, from the cached aggregates
\* d: the cumulative fluxes (Growth) or the bin fluxes over the bin areas
\* (Annular)
RawProfile(d) ==
    IF Obj.kind = "Growth" THEN Val(d._photometry).fluxes
    ELSE [i \in 1..Len(Val(d._flux)) |->
             QDiv(Val(d._flux)[i], Val(d.area)[i])]
RawProfileError(d) ==
    IF Obj.kind = "Growth" THEN Val(d._photometry).fluxerrs
    ELSE IF ~IsSet(Obj.error) THEN Val(d._fluxerr)
    ELSE [i \in 1..Len(Val(d._fluxerr)) |->
             EDivQ(Val(d._fluxerr)[i], Val(d.area)[i])]

\* nothing cached has been scaled yet
Unscaled ==
    /\ IsSet(dict.profile) => Val(dict.profile) = RawProfile(dict)
    /\ IsSet(dict.profile_error) =>
           Val(dict.profile_error) = RawProfileError(dict)

\* C16: whichever lazy attributes were read before it, and in whatever
\* order, one call normalize(m) with a nonzero constant c leaves profile
\* and profile_error equal to the un-normalized profile and profile_error
\* divided by c, both scaled together, and that is what is read afterwards.
C16_OrderIndependent ==
    [][(last'.op = "normalize" /\ last'.method \in {"max", "sum"}
            /\ Unscaled) =>
          \A c \in {normalization(last'.method, RawProfile(dict'))} :
              ~QEqZero(c) =>
                  /\ last'.outcome = "ok"
                  /\ \A raw \in {RawProfile(dict')} :
                         Val(dict'.profile) =
                             [i \in 1..Len(raw) |-> QDiv(raw[i], c)]
                  /\ \A raw \in {RawProfileError(dict')} :
                         Val(dict'.profile_error) =
                             [i \in 1..Len(raw) |-> EDivQ(raw[i], c)]
                  /\ \A after \in {profile(Obj, [d |-> dict', t |-> trace'])} :
                         /\ after.d.profile = dict'.profile
                         /\ profile_error(Obj, after).d.profile_error =
                                dict'.profile_error]_vars

\* an Annular object normalized once after radius and apertures had been
\* read (normalize reads neither), with errors that the constant changed
C16_Witness ==
    /\ Obj.kind = "Annular"
    /\ last.op = "normalize"
    /\ last.outcome = "ok"
    /\ IsSet(Obj.error)
    /\ IsSet(dict.radius)
    /\ IsSet(dict.apertures)
    /\ Val(dict.profile) # RawProfile(dict)
    /\ Val(dict.profile_error) # RawProfileError(dict)
    /\ \E c \in {normalization(last.method, RawProfile(dict))} :
           /\ IsFinite(c)
           /\ Val(dict.profile) =
                  [i \in 1..Len(RawProfile(dict)) |->
                      QDiv(RawProfile(dict)[i], c)]

====
